---- MODULE Spec2Model ----
(***************************************************************************)
(* Model of the strategy decision state machines of scr/core/strategies.py *)
(* (MACD_LinePeakStrategy = "Variant B", MACD_LinePeakStrategy_v2 =        *)
(* "Variant C") together with the broker notifications they react to, and  *)
(* of the risk sizer calculate_position_size.                              *)
(* Further specifications model the runners: the parameter grid handed to  *)
(* BacktestEngine.add_optimizer (GridSpec), the ranking of a sweep's       *)
(* analyses (RankSpec), the window loop of run_walk_forward.main (WfaSpec) *)
(* and the loops of the three runner scripts with their error handling     *)
(* (BatchSpec).  SmaSpec models SmaCrossStrategy ("Variant A") and         *)
(* ScanSpec the peak test over a whole MACD-line series.                   *)
(*                                                                         *)
(* Python floats are modelled as exact rationals <<n, d>> with d >= 1 in   *)
(* lowest terms; None is the pair <<0, 0>>, nan and the infinities are the *)
(* pairs <<0, -1>>, <<1, -1>> and <<-1, -1>>.                              *)
(***************************************************************************)
EXTENDS Integers, Sequences, FiniteSets, TLC

(* ------------------------------------------------------------------ *)
(* Bounds of the model                                                *)
(* ------------------------------------------------------------------ *)

\* Number of bars the data feed delivers.
MaxBars == 6

\* Strategy parameters p_slow2 / p_signal as configured for the run
\* (defaults 40 and 9; the model runs a short warm-up).
p_slow2 == 2

p_signal == 1

\* Largest close / fill price drawn for a bar.
MaxPrice == 2

\* Largest number of parameters in a grid handed to the optimizer.
MaxParams == 2

\* Largest number of analyses collected by one sweep.
MaxResults == 3

\* Largest number of bars of a short walk-forward series.
MaxSeries == 9

\* Length of the MACD-line series the peak test is scanned over.
MaxScan == 5

\* Configs of one batch, or cycles of one walk-forward run.
MaxUnits == 2

\* Strategy runs of one batch, over all its configs or cycles.
MaxRuns == 3

\* Dates a data file can hold rows for.
MaxDate == 2

\* Passes of the walk-forward loop that are followed.
MaxCycles == 8

(* ------------------------------------------------------------------ *)
(* Rational arithmetic standing for Python's float arithmetic         *)
(* ------------------------------------------------------------------ *)

None == <<0, 0>>

IsNone(x) == x[2] = 0

Abs(x) == IF x < 0 THEN -x ELSE x

RECURSIVE GCD(_, _)
GCD(a, b) == IF b = 0 THEN a ELSE GCD(b, a % b)

\* n/d in lowest terms with a positive denominator (d # 0).
Rat(n, d) ==
    LET s == IF d < 0 THEN -1 ELSE 1
        g == GCD(Abs(n), Abs(d))
    IN  <<(s * n) \div g, (s * d) \div g>>

Zero == <<0, 1>>

FromInt(i) == <<i, 1>>

RAdd(a, b) == Rat(a[1] * b[2] + b[1] * a[2], a[2] * b[2])

RSub(a, b) == Rat(a[1] * b[2] - b[1] * a[2], a[2] * b[2])

RMul(a, b) == Rat(a[1] * b[1], a[2] * b[2])

\* a / b for b # 0 (Python raises ZeroDivisionError for b = 0: the callers test it).
RDiv(a, b) == Rat(a[1] * b[2], a[2] * b[1])

RLess(a, b) == a[1] * b[2] < b[1] * a[2]

RLeq(a, b) == a[1] * b[2] <= b[1] * a[2]

\* Python's max(a, b): the first argument unless the second is larger.
RMax(a, b) == IF RLess(a, b) THEN b ELSE a

\* Truthiness of an optional float: None and 0.0 are falsy (nan and inf are not).
Truthy(x) == ~IsNone(x) /\ (x[1] # 0 \/ x[2] < 0)

\* The non-finite floats: float('nan'), float('inf'), float('-inf').
NaN == <<0, -1>>

Inf == <<1, -1>>

NegInf == <<-1, -1>>

IsFinite(x) == x[2] > 0

IsNaN(x) == x = NaN

Sign(x) == IF x[1] > 0 THEN 1 ELSE IF x[1] < 0 THEN -1 ELSE 0

\* Python's a * b on floats: nan is contagious, inf * 0 is nan.
FMul(a, b) ==
    IF IsFinite(a) /\ IsFinite(b) THEN RMul(a, b)
    ELSE IF IsNaN(a) \/ IsNaN(b) \/ Sign(a) * Sign(b) = 0 THEN NaN
    ELSE <<Sign(a) * Sign(b), -1>>

\* Python's a / b on floats for b # 0.0 (b = 0.0 raises ZeroDivisionError
\* whatever a is: the callers test it): inf / inf is nan, x / inf is 0.0.
FDiv(a, b) ==
    IF IsFinite(a) /\ IsFinite(b) THEN RDiv(a, b)
    ELSE IF IsNaN(a) \/ IsNaN(b) THEN NaN
    ELSE IF ~IsFinite(a) /\ ~IsFinite(b) THEN NaN
    ELSE IF IsFinite(a) THEN Zero
    ELSE <<Sign(a) * Sign(b), -1>>

\* Python's a < b on floats: every comparison with nan is False.
FLess(a, b) ==
    IF IsFinite(a) /\ IsFinite(b) THEN RLess(a, b)
    ELSE IF IsNaN(a) \/ IsNaN(b) THEN FALSE
    ELSE IF a = Inf \/ b = NegInf THEN FALSE
    ELSE a # b

\* Python's max(a, b): the first argument unless the second is larger,
\* so max(nan, b) is nan.
FMax(a, b) == IF FLess(a, b) THEN b ELSE a

(* ------------------------------------------------------------------ *)
(* Parameters of MACD_LinePeakStrategy_v2 (params tuple, defaults)    *)
(* ------------------------------------------------------------------ *)

risk_pct == 1

atr_mult == 2

sl_percent == <<3, 2>>

sl_ticks == 50

tick_size == <<1, 100>>

min_qty == <<1, 10000>>

\* PercentSizer(percents=95) installed by BacktestEngine.run.
sizer_percents == 95

(* ------------------------------------------------------------------ *)
(* Input domains                                                      *)
(* ------------------------------------------------------------------ *)

Variants == {"B", "C"}

SlModes == {"ATR", "Percent", "Ticks"}

\* Bars per calendar day of the feed's timeframe: 1 for '1d', 2 for an
\* intraday timeframe (two bars share one calendar date).
Timeframes == {1, 2}

\* Values of a MACD line.
MacdValues == {-1, 0, 1}

\* Values of the lines of macd_1 and macd_3.
LineValues == {0, 1}

\* Values of the CrossOver indicator.
CrossValues == {-1, 0, 1}

Prices == 1..MaxPrice

ATRs == {0, 1}

\* Values of broker.getvalue() / broker.getcash().
Equities == {0, 10000}

VARIABLES
    variant,         \* which strategy class runs: "B" or "C"
    sl_mode,         \* params.sl_mode (Variant C)
    bars_per_day,    \* timeframe of the data feed
    len_data,        \* len(self.data): index of the current bar
    m,               \* <<m[-2], m[-1], m[0]>> of macd_2_main.macd
    close,           \* self.data.close[0]
    atr,             \* self.atr[0]
    order,           \* self.order: the pending-order marker
    position_level,  \* self.position_level
    peak_detected,   \* self.peak_detected
    stop_price,      \* self.stop_price
    entry_price,     \* self.entry_price
    last_signal_bar, \* self.last_signal_bar, 0 while the attribute is absent
    position,        \* self.position.size at the broker
    pending,         \* orders submitted to the broker and not yet resolved
    last,            \* what the last step was and what next() saw and did
    nsub,            \* orders submitted since the current bar arrived
    half_exits,      \* half-exits submitted since the last entry / return to Flat
    sizer,           \* one call of calculate_position_size: arguments and result
    grid,            \* one parameter grid handed to BacktestEngine.add_optimizer
    rank,            \* the analyses of one sweep and their ranking
    wfa,             \* run_walk_forward.main: series, cursor and cycles
    scan,            \* a MACD-line series and the peak test's value bar by bar
    batch            \* one runner script: its loop, result list and report

vars == <<variant, sl_mode, bars_per_day, len_data, m, close, atr, order,
          position_level, peak_detected, stop_price, entry_price,
          last_signal_bar, position, pending, last, nsub, half_exits, sizer,
          grid, rank, wfa, scan, batch>>

\* State of the specifications that model one function or script alone.
extras == <<scan, batch>>

\* The runner scripts' state, untouched by the strategy callbacks.
runners == <<grid, rank, wfa, extras>>

aside == <<sizer, runners>>

config == <<variant, sl_mode, bars_per_day>>

feed == <<len_data, m, close, atr>>

NoOrder == [kind |-> "none", size |-> Zero, tag |-> "none"]

Order(kind, size, tag) == [kind |-> kind, size |-> size, tag |-> tag]

Seen(op, evaluated, entry_cond, cross_down, intent) ==
    [op |-> op, evaluated |-> evaluated, entry_cond |-> entry_cond,
     cross_down |-> cross_down, intent |-> intent, trends |-> <<FALSE, FALSE>>]

Step(op) == Seen(op, FALSE, FALSE, FALSE, "none")


strategy == <<order, position_level, peak_detected, stop_price, entry_price,
              last_signal_bar>>

(* ------------------------------------------------------------------ *)
(* RiskSizer: calculate_stop_distance / calculate_position_size       *)
(* ------------------------------------------------------------------ *)

\* calculate_stop_distance(entry_price) under stop-loss mode `mode` with ATR value `a`.
stop_distance_for(mode, a, price) ==
    IF mode = "ATR" THEN RMul(FromInt(a), FromInt(atr_mult))
    ELSE IF mode = "Percent" THEN RMul(price, RDiv(sl_percent, FromInt(100)))
    ELSE RMul(FromInt(sl_ticks), tick_size)

calculate_stop_distance(price) == stop_distance_for(sl_mode, atr, price)

\* The fallback branch for stop_distance <= 0: 2% of the portfolio value.
fallback_size(price, value) ==
    FDiv(FMul(value, <<2, 100>>), price)

\* Mutant: the risk-based branch without the min_qty floor.
risk_size_no_floor(price, stop_distance, value) ==
    LET risk_cash == FMul(value, RDiv(FromInt(risk_pct), FromInt(100)))
        position_size == FDiv(risk_cash, stop_distance)
    IN  FDiv(position_size, price)

\* The risk-based branch for stop_distance > 0.
risk_size(price, stop_distance, value) ==
    LET risk_cash == FMul(value, RDiv(FromInt(risk_pct), FromInt(100)))
        position_size == FDiv(risk_cash, stop_distance)
    IN  FMax(FDiv(position_size, price), min_qty)

\* calculate_position_size(entry_price, stop_distance), value = broker.getvalue().
\* A division by entry_price = 0.0 raises ZeroDivisionError, which the except
\* clause turns into min_qty; nothing else in the body raises, a nan or inf
\* operand flows through the arithmetic (nan > 0 is False).
calculate_position_size(price, stop_distance, value) ==
    IF price = Zero THEN min_qty
    ELSE IF FLess(Zero, stop_distance) THEN risk_size(price, stop_distance, value)
    ELSE fallback_size(price, value)

(* ------------------------------------------------------------------ *)
(* Shared pieces of next() (the two classes carry the same code)      *)
(* ------------------------------------------------------------------ *)

\* self.data.datetime.date(0) of bar i: the calendar date of its timestamp.
\* Bar i opens (i - 1) / bars_per_day days after the first bar.
date(i) == (i - 1) \div bars_per_day

\* Mutant: the pending-order guard is missing.
PendingGuard_off == FALSE

\* if self.order: return
PendingGuard == order # NoOrder

\* if len(self.data) < self.p.p_slow2 + self.p.p_signal: return
WarmingUp == len_data < p_slow2 + p_signal

\* if len(self.data) > 1 and date(0) <= date(-1): return
BarNotClosed == len_data > 1 /\ date(len_data) <= date(len_data - 1)

\* Mutant: the duplicate-signal guard is missing.
AlreadySignalled_off == FALSE

\* if hasattr(self, 'last_signal_bar') and self.last_signal_bar == len(self.data): return
AlreadySignalled == last_signal_bar # 0 /\ last_signal_bar = len_data

Guarded == PendingGuard \/ WarmingUp \/ BarNotClosed \/ AlreadySignalled

\* trend_k_rising for a MACD line given as <<macd[-1], macd[0]>>
rising(line) == line[2] > line[1]

is_unified_uptrend(macd_1, macd_3) ==
    rising(macd_1) /\ rising(<<m[2], m[3]>>) /\ rising(macd_3)

is_macd2_above_zero == m[3] > 0

\* m[-2] < m[-1] > m[0]
\* Mutant: the peak test with non-strict comparisons.
is_macd_line_peaked_weak == m[1] <= m[2] /\ m[2] >= m[3]

is_macd_line_peaked == m[1] < m[2] /\ m[2] > m[3]

is_macd_cross_down(cross) == cross < 0

\* Mutant: only the 5/40 instance is looked at.
entry_condition_main_only(macd_1, macd_3) ==
    rising(<<m[2], m[3]>>) /\ is_macd2_above_zero

\* if is_unified_uptrend and is_macd2_above_zero
entry_condition(macd_1, macd_3) ==
    is_unified_uptrend(macd_1, macd_3) /\ is_macd2_above_zero

\* Mutant: the entry branch tests the tracked level instead of the position.
no_position_by_level == position_level < 2

\* if not self.position:
no_position == position = Zero

\* Mutant: the half exit fires on every peak, whatever the level and the flag.
half_exit_condition_any_peak == is_macd_line_peaked

half_exit_condition ==
    position_level = 2 /\ is_macd_line_peaked /\ ~peak_detected

final_exit_condition(cross) ==
    position_level > 0 /\ is_macd_cross_down(cross)

\* self.position.size * 0.5  (v2)  /  self.position.size / 2.0
half_size == RDiv(position, FromInt(2))

\* Strategy.buy/sell hand a non-zero size to the broker and return the order;
\* for size 0 they return None and nothing is submitted.
Submit(o) ==
    IF o.size = Zero
    THEN /\ order' = NoOrder
         /\ UNCHANGED <<pending, nsub>>
    ELSE /\ order' = o
         /\ pending' = Append(pending, o)
         /\ nsub' = nsub + 1

Intent(o) == IF o.size = Zero THEN "none" ELSE o.tag

\* Strategy.close(): a sell of the whole current position.
close_order(tag) == Order("sell", position, tag)

\* A call of next() that returns at one of the four guards.
Skipped ==
    /\ last' = Step("next")
    /\ UNCHANGED <<strategy, pending, nsub, half_exits>>

\* Entry: self.order = self.buy(size); position_level = 2; peak_detected = False
\* last.trends keeps trend_1_rising and trend_3_rising of the call.
Entry(size, macd_1, macd_3) ==
    /\ Submit(Order("buy", size, "buy"))
    /\ position_level' = 2
    /\ peak_detected' = FALSE
    /\ last_signal_bar' = len_data
    /\ half_exits' = 0
    /\ last' = [Seen("next", TRUE, TRUE, FALSE,
                      Intent(Order("buy", size, "buy")))
                   EXCEPT !.trends = <<rising(macd_1), rising(macd_3)>>]
    /\ UNCHANGED <<stop_price, entry_price>>

\* Half exit: self.order = self.sell(size=size_to_sell); level 1; peak flag set
HalfExit(cross) ==
    /\ Submit(Order("sell", half_size, "half"))
    /\ position_level' = 1
    /\ peak_detected' = TRUE
    /\ last_signal_bar' = len_data
    /\ half_exits' = half_exits + 1
    /\ last' = Seen("next", TRUE, FALSE, is_macd_cross_down(cross), "half")
    /\ UNCHANGED <<stop_price, entry_price>>

\* Mutant: the final exit resets the state when the close is submitted.
FinalExit_resets(cross) ==
    /\ Submit(close_order("close"))
    /\ last_signal_bar' = len_data
    /\ last' = Seen("next", TRUE, FALSE, is_macd_cross_down(cross), "close")
    /\ position_level' = 0
    /\ peak_detected' = FALSE
    /\ stop_price' = None
    /\ entry_price' = None
    /\ half_exits' = 0

\* Final exit: self.order = self.close()
FinalExit(cross) ==
    /\ Submit(close_order("close"))
    /\ last_signal_bar' = len_data
    /\ last' = Seen("next", TRUE, FALSE, is_macd_cross_down(cross), "close")
    /\ UNCHANGED <<position_level, peak_detected, stop_price, entry_price,
                   half_exits>>

\* No branch taken: signal_generated stays False.
NoSignal(cross_down) ==
    /\ last' = Seen("next", TRUE, FALSE, cross_down, "none")
    /\ UNCHANGED <<strategy, pending, nsub, half_exits>>

\* The exit branch: elif self.position: half exit, elif final exit.
ExitLogic(cross) ==
    IF half_exit_condition THEN HalfExit(cross)
    ELSE IF final_exit_condition(cross) THEN FinalExit(cross)
    ELSE NoSignal(is_macd_cross_down(cross))

(* ------------------------------------------------------------------ *)
(* Variant C: MACD_LinePeakStrategy_v2                                *)
(* ------------------------------------------------------------------ *)

\* check_stop_loss(): if self.position and self.stop_price: close[0] <= stop_price
check_stop_loss ==
    position # Zero /\ Truthy(stop_price) /\ RLeq(FromInt(close), stop_price)

\* The stop-loss branch of next(): self.order = self.close(); return
StopLossExit ==
    /\ Submit(close_order("stop"))
    /\ last_signal_bar' = len_data
    /\ last' = Seen("next", TRUE, FALSE, FALSE, "stop")
    /\ UNCHANGED <<position_level, peak_detected, stop_price, entry_price,
                   half_exits>>

\* The size of the entry order: calculate_position_size(close[0], stop distance).
v2_entry_size(value) ==
    calculate_position_size(FromInt(close),
                            calculate_stop_distance(FromInt(close)),
                            FromInt(value))

\* The values next() reads besides the stored bar: the other two MACD lines
\* (as <<macd[-1], macd[0]>>), the CrossOver value and broker.getvalue().
Lines == LineValues \X LineValues

\* if not self.position: entry logic
v2_entry_logic ==
    \E macd_1 \in Lines, macd_3 \in Lines, value \in Equities :
        IF entry_condition(macd_1, macd_3)
        THEN Entry(v2_entry_size(value), macd_1, macd_3)
        ELSE NoSignal(FALSE)

\* elif self.position: exit logic
exit_logic ==
    \E cross \in CrossValues : ExitLogic(cross)

v2_next ==
    /\ variant = "C"
    /\ len_data >= 1
    /\ IF Guarded THEN Skipped
       ELSE IF check_stop_loss THEN StopLossExit
       ELSE IF no_position THEN v2_entry_logic
       ELSE exit_logic
    /\ UNCHANGED <<config, feed, position, aside>>

\* The state reset of notify_order once the position is fully closed.
v2_reset ==
    /\ position_level' = 0
    /\ peak_detected' = FALSE
    /\ stop_price' = None
    /\ entry_price' = None
    /\ half_exits' = 0

\* The position after order o is executed.
filled(o) ==
    IF o.kind = "buy" THEN RAdd(position, o.size) ELSE RSub(position, o.size)

\* Mutant: the stop is recomputed at every fill that leaves a position.
v2_completed_any_fill(o, price) ==
    /\ position' = filled(o)
    /\ order' = NoOrder
    /\ IF filled(o) = Zero
       THEN v2_reset
       ELSE /\ entry_price' = FromInt(price)
            /\ stop_price' = RSub(FromInt(price),
                                  calculate_stop_distance(FromInt(price)))
            /\ UNCHANGED <<position_level, peak_detected, half_exits>>

\* notify_order with order.status == Completed, executed at `price`.
v2_completed(o, price) ==
    /\ position' = filled(o)
    /\ order' = NoOrder
    /\ IF filled(o) = Zero
       THEN v2_reset
       ELSE /\ IF o.kind = "buy"
               THEN /\ entry_price' = FromInt(price)
                    /\ stop_price' = RSub(FromInt(price),
                                          calculate_stop_distance(FromInt(price)))
               ELSE UNCHANGED <<entry_price, stop_price>>
            /\ UNCHANGED <<position_level, peak_detected, half_exits>>

v2_notify_completed ==
    /\ variant = "C"
    /\ pending # <<>>
    /\ \E price \in Prices : v2_completed(Head(pending), price)
    /\ pending' = Tail(pending)
    /\ last' = Step("completed")
    /\ UNCHANGED <<config, feed, last_signal_bar, nsub, aside>>

\* Mutant: a rejection is handled like a closed position.
v2_rejected_resets ==
    /\ order' = NoOrder
    /\ position_level' = 0
    /\ peak_detected' = FALSE
    /\ UNCHANGED <<stop_price, entry_price, last_signal_bar, half_exits>>

\* notify_order with order.status in [Canceled, Margin, Rejected]
v2_rejected ==
    /\ order' = NoOrder
    /\ UNCHANGED <<position_level, peak_detected, stop_price, entry_price,
                   last_signal_bar, half_exits>>

v2_notify_rejected ==
    /\ variant = "C"
    /\ pending # <<>>
    /\ v2_rejected
    /\ pending' = Tail(pending)
    /\ last' = Step("rejected")
    /\ UNCHANGED <<config, feed, position, nsub, aside>>

(* ------------------------------------------------------------------ *)
(* Variant B: MACD_LinePeakStrategy                                   *)
(* ------------------------------------------------------------------ *)

\* self.buy() without a size asks the sizer: PercentSizer(percents=95) on the cash.
getsizing(cash) ==
    RMul(RDiv(FromInt(cash), FromInt(close)), <<sizer_percents, 100>>)

\* if not self.position: entry logic
lp_entry_logic ==
    \E macd_1 \in Lines, macd_3 \in Lines, cash \in Equities :
        IF entry_condition(macd_1, macd_3)
        THEN Entry(getsizing(cash), macd_1, macd_3)
        ELSE NoSignal(FALSE)

lp_next ==
    /\ variant = "B"
    /\ len_data >= 1
    /\ IF Guarded THEN Skipped
       ELSE IF no_position THEN lp_entry_logic
       ELSE exit_logic
    /\ UNCHANGED <<config, feed, position, aside>>

lp_reset ==
    /\ position_level' = 0
    /\ peak_detected' = FALSE
    /\ half_exits' = 0

\* notify_order with order.status == Completed
lp_completed(o) ==
    /\ position' = filled(o)
    /\ order' = NoOrder
    /\ IF filled(o) = Zero
       THEN lp_reset
       ELSE UNCHANGED <<position_level, peak_detected, half_exits>>
    /\ UNCHANGED <<stop_price, entry_price>>

lp_notify_completed ==
    /\ variant = "B"
    /\ pending # <<>>
    /\ lp_completed(Head(pending))
    /\ pending' = Tail(pending)
    /\ last' = Step("completed")
    /\ UNCHANGED <<config, feed, last_signal_bar, nsub, aside>>

\* notify_order with order.status in [Canceled, Margin, Rejected]
lp_rejected ==
    /\ order' = NoOrder
    /\ UNCHANGED <<position_level, peak_detected, stop_price, entry_price,
                   last_signal_bar, half_exits>>

lp_notify_rejected ==
    /\ variant = "B"
    /\ pending # <<>>
    /\ lp_rejected
    /\ pending' = Tail(pending)
    /\ last' = Step("rejected")
    /\ UNCHANGED <<config, feed, position, nsub, aside>>

\* notify_order with any other status (Submitted, Accepted): neither branch runs.
notify_accepted ==
    /\ pending # <<>>
    /\ last' = Step("accepted")
    /\ UNCHANGED <<config, feed, strategy, position, pending, nsub, half_exits,
                   aside>>

(* ------------------------------------------------------------------ *)
(* The data feed and the run                                          *)
(* ------------------------------------------------------------------ *)

\* The feed delivers the next bar: new close, ATR and MACD-line values.
NewBar ==
    /\ len_data < MaxBars
    /\ len_data' = len_data + 1
    /\ \E v \in MacdValues : m' = <<m[2], m[3], v>>
    /\ close' \in Prices
    /\ atr' \in (IF variant = "C" THEN ATRs ELSE {0})
    /\ nsub' = 0
    /\ last' = Step("bar")
    /\ UNCHANGED <<config, strategy, position, pending, half_exits, aside>>

SizerIdle == [entry_price |-> Zero, stop_distance |-> Zero, value |-> Zero,
              done |-> FALSE, result |-> None]

\* The runner scripts before anything was handed to them.
GridIdle == [params |-> <<>>, stage |-> "idle", opt_params |-> <<>>, n_runs |-> 0]

RankIdle == [results |-> <<>>, has_key |-> TRUE, stage |-> "idle",
             ranked |-> <<>>, summary |-> <<>>]

WfaIdle == [n_bars |-> 0, train_days |-> 0, test_days |-> 0, bt_bound |-> FALSE,
            pc |-> "idle", cursor |-> 0, cycles |-> <<>>]

ScanIdle == [series |-> <<>>, seen |-> <<>>]

BatchIdle == [entry |-> "none", pc |-> "idle", bt_bound |-> FALSE,
              target |-> "none", summary |-> <<>>,
              n_units |-> 0, unit |-> 0, failed |-> <<>>, loads |-> <<>>, runs |-> <<>>,
              results |-> <<>>, reported |-> <<>>]

ExtrasIdle ==
    /\ scan = ScanIdle
    /\ batch = BatchIdle

RunnersIdle ==
    /\ grid = GridIdle
    /\ rank = RankIdle
    /\ wfa = WfaIdle
    /\ ExtrasIdle

\* The state after __init__, before the first bar.
Init ==
    /\ variant \in Variants
    /\ sl_mode \in (IF variant = "C" THEN SlModes ELSE {"ATR"})
    /\ bars_per_day \in Timeframes
    /\ len_data = 0
    /\ m = <<0, 0, 0>>
    /\ close = 1
    /\ atr = 0
    /\ order = NoOrder
    /\ position_level = 0
    /\ peak_detected = FALSE
    /\ stop_price = None
    /\ entry_price = None
    /\ last_signal_bar = 0
    /\ position = Zero
    /\ pending = <<>>
    /\ last = Step("init")
    /\ nsub = 0
    /\ half_exits = 0
    /\ sizer = SizerIdle
    /\ RunnersIdle

Next ==
    \/ NewBar
    \/ v2_next
    \/ v2_notify_completed
    \/ v2_notify_rejected
    \/ lp_next
    \/ lp_notify_completed
    \/ lp_notify_rejected
    \/ notify_accepted

Spec == Init /\ [][Next]_vars

(* ------------------------------------------------------------------ *)
(* calculate_position_size on its own: one call per behaviour         *)
(* ------------------------------------------------------------------ *)

SizerPrices == {Zero, FromInt(1), FromInt(2), FromInt(100), NaN, Inf}

SizerDistances == {Zero, <<1, 2>>, FromInt(2), FromInt(3), NaN, Inf}

SizerValues == {Zero, FromInt(1), FromInt(100), FromInt(10000), NaN, Inf}

SizerInit ==
    /\ variant = "C"
    /\ sl_mode = "ATR"
    /\ bars_per_day = 1
    /\ len_data = 0
    /\ m = <<0, 0, 0>>
    /\ close = 1
    /\ atr = 0
    /\ order = NoOrder
    /\ position_level = 0
    /\ peak_detected = FALSE
    /\ stop_price = None
    /\ entry_price = None
    /\ last_signal_bar = 0
    /\ position = Zero
    /\ pending = <<>>
    /\ last = Step("init")
    /\ nsub = 0
    /\ half_exits = 0
    /\ RunnersIdle
    /\ \E e \in SizerPrices, d \in SizerDistances, v \in SizerValues :
          sizer = [entry_price |-> e, stop_distance |-> d, value |-> v,
                   done |-> FALSE, result |-> None]

SizerCall ==
    /\ ~sizer.done
    /\ sizer' = [sizer EXCEPT
                   !.done = TRUE,
                   !.result = calculate_position_size(sizer.entry_price,
                                                      sizer.stop_distance,
                                                      sizer.value)]
    /\ UNCHANGED <<config, feed, strategy, position, pending, last, nsub,
                   half_exits, runners>>

SizerNext == SizerCall

SizerSpec == SizerInit /\ [][SizerNext]_vars

(* ------------------------------------------------------------------ *)
(* BacktestEngine.add_optimizer and the sweep it configures           *)
(* ------------------------------------------------------------------ *)

\* No strategy instance is running while a runner script is modelled alone.
StrategyIdle ==
    /\ variant = "C"
    /\ sl_mode = "ATR"
    /\ len_data = 0
    /\ m = <<0, 0, 0>>
    /\ close = 1
    /\ atr = 0
    /\ order = NoOrder
    /\ position_level = 0
    /\ peak_detected = FALSE
    /\ stop_price = None
    /\ entry_price = None
    /\ last_signal_bar = 0
    /\ position = Zero
    /\ pending = <<>>
    /\ last = Step("init")
    /\ nsub = 0
    /\ half_exits = 0
    /\ sizer = SizerIdle

GridStarts == {1, 2}

GridEnds == {3, 5}

GridSteps == {1, 2}

\* One value of params_to_optimize: a YAML list [start, end, step], a tuple
\* (start, end, step) as get_strategy_optimization_params returns it, or a
\* fixed scalar (kept in `start`). `floats` says the numbers are floats,
\* as in 'risk_pct': (0.5, 2.0, 0.5).
GridEntries ==
    [form : {"list", "tuple"}, start : GridStarts, end : GridEnds,
     step : GridSteps, floats : BOOLEAN]
    \cup [form : {"fixed"}, start : GridStarts, end : {3}, step : {1},
          floats : {FALSE}]

Grids == UNION {[1..n -> GridEntries] : n \in 1..MaxParams}

\* list(range(start, end, step)) for step > 0.
RECURSIVE RangeValues(_, _, _)
RangeValues(start, end, step) ==
    IF start >= end THEN <<>>
    ELSE <<start>> \o RangeValues(start + step, end, step)

\* range(*v) raises TypeError when v holds a float.
RangeRaises(e) == e.form = "list" /\ e.floats

\* The iterable cerebro.optstrategy walks for one parameter: range(*v) for a
\* list of three, and v itself otherwise (a tuple is walked member by member,
\* a scalar is wrapped by optstrategy's iterize).
OptValues(e) ==
    IF e.form = "list" THEN RangeValues(e.start, e.end, e.step)
    ELSE IF e.form = "tuple" THEN <<e.start, e.end, e.step>>
    ELSE <<e.start>>

\* len(list(itertools.product(*vals))).
RECURSIVE ProductSize(_)
ProductSize(vals) ==
    IF vals = <<>> THEN 1 ELSE Len(Head(vals)) * ProductSize(Tail(vals))

GridInit ==
    /\ StrategyIdle
    /\ bars_per_day = 1
    /\ rank = RankIdle
    /\ wfa = WfaIdle
    /\ ExtrasIdle
    /\ \E g \in Grids :
          grid = [params |-> g, stage |-> "config", opt_params |-> <<>>,
                  n_runs |-> 0]

\* engine.add_optimizer(strategy_class, params_to_optimize); a TypeError from
\* range() leaves the config without a sweep (caught at run_optimization.py 821).
add_optimizer ==
    /\ grid.stage = "config"
    /\ IF \E i \in DOMAIN grid.params : RangeRaises(grid.params[i])
       THEN grid' = [grid EXCEPT !.stage = "raised"]
       ELSE grid' = [grid EXCEPT
                       !.stage = "added",
                       !.opt_params = [i \in DOMAIN grid.params |->
                                          OptValues(grid.params[i])]]
    /\ UNCHANGED <<config, feed, strategy, position, pending, last, nsub,
                   half_exits, sizer, rank, wfa, extras>>

\* opt_results = engine.run(): one run per member of the product.
run_sweep ==
    /\ grid.stage = "added"
    /\ grid' = [grid EXCEPT !.stage = "run",
                            !.n_runs = ProductSize(grid.opt_params)]
    /\ UNCHANGED <<config, feed, strategy, position, pending, last, nsub,
                   half_exits, sizer, rank, wfa, extras>>

GridNext ==
    \/ add_optimizer
    \/ run_sweep

GridSpec == GridInit /\ [][GridNext]_vars

(* ------------------------------------------------------------------ *)
(* Ranking the analyses of a sweep                                    *)
(* ------------------------------------------------------------------ *)

\* x[optimize_target] of one analysis: a float, None (SharpeRatio's value when
\* it cannot be computed) or nan.
MetricValues == {FromInt(-1), FromInt(1), FromInt(2), None, NaN}

\* final_results in enumeration ord. When optimize_target is not a key
\* analyze_results writes (has_key = FALSE) no analysis carries a value.
ResultLists == UNION {[1..n -> MetricValues] : n \in 1..MaxResults}

NoMetric(n) == [i \in 1..n |-> None]

Perms(n) == {f \in [1..n -> 1..n] : \A i, j \in 1..n : f[i] = f[j] => i = j}

\* A comparison between None and a float (or None) raises TypeError; a sort of
\* two or more items compares every item at least once.
SortRaises(keys) == Len(keys) >= 2 /\ \E i \in DOMAIN keys : IsNone(keys[i])

\* With a nan key the comparisons are inconsistent and the ord sorted()
\* returns is not specified.
HasNaN(keys) == \E i \in DOMAIN keys : IsNaN(keys[i])

\* Mutant: an item is placed before the items whose key equals its own.
RECURSIVE InsertDesc_before_ties(_, _, _)
InsertDesc_before_ties(keys, sorted, i) ==
    IF sorted = <<>> THEN <<i>>
    ELSE IF ~FLess(keys[i], keys[Head(sorted)]) THEN <<i>> \o sorted
    ELSE <<Head(sorted)>> \o InsertDesc_before_ties(keys, Tail(sorted), i)

\* Item i enters a descending list behind every item whose key is not smaller
\* than its own: sorted(..., reverse=True) keeps the original ord of equals.
RECURSIVE InsertDesc(_, _, _)
InsertDesc(keys, sorted, i) ==
    IF sorted = <<>> THEN <<i>>
    ELSE IF FLess(keys[Head(sorted)], keys[i]) THEN <<i>> \o sorted
    ELSE <<Head(sorted)>> \o InsertDesc(keys, Tail(sorted), i)

RECURSIVE SortedFrom(_, _)
SortedFrom(keys, n) ==
    IF n = 0 THEN <<>> ELSE InsertDesc(keys, SortedFrom(keys, n - 1), n)

\* The positions of `keys` in the ord sorted(key=..., reverse=True) lists them.
sorted_desc(keys) == SortedFrom(keys, Len(keys))

\* The orders sorted() can return for `keys` when no comparison raises.
SortOutcomes(keys) ==
    IF HasNaN(keys) THEN Perms(Len(keys)) ELSE {sorted_desc(keys)}

\* key=lambda x: x.get(optimize_target, 0) over final_results.
GetKeys == [i \in DOMAIN rank.results |->
               IF rank.has_key THEN rank.results[i] ELSE Zero]

\* f"{target_value:.2f}" raises TypeError for None (top five of the list).
FormatRaises(keys, ord) ==
    \E r \in DOMAIN ord : r <= 5 /\ IsNone(keys[ord[r]])

RECURSIVE SelectSeq2(_, _)
SelectSeq2(ids, keep) ==
    IF ids = <<>> THEN <<>>
    ELSE (IF Head(ids) \in keep THEN <<Head(ids)>> ELSE <<>>)
         \o SelectSeq2(Tail(ids), keep)

RankInit ==
    /\ StrategyIdle
    /\ bars_per_day = 1
    /\ grid = GridIdle
    /\ wfa = WfaIdle
    /\ ExtrasIdle
    /\ \/ \E l \in ResultLists :
             rank = [results |-> l, has_key |-> TRUE, stage |-> "collected",
                     ranked |-> <<>>, summary |-> <<>>]
       \/ \E n \in 1..MaxResults :
             rank = [results |-> NoMetric(n), has_key |-> FALSE,
                     stage |-> "collected", ranked |-> <<>>, summary |-> <<>>]

RankUnchanged ==
    UNCHANGED <<config, feed, strategy, position, pending, last, nsub,
                half_exits, sizer, grid, wfa, extras>>

\* execute_optimization 797-819: sort, print the top five, extend all_results.
\* A TypeError from the sort or from the :.2f format is caught at 821: this
\* config adds nothing to all_results.
execute_optimization_rank ==
    /\ rank.stage = "collected"
    /\ IF SortRaises(GetKeys)
       THEN rank' = [rank EXCEPT !.stage = "failed"]
       ELSE \E ord \in SortOutcomes(GetKeys) :
              IF FormatRaises(GetKeys, ord)
              THEN rank' = [rank EXCEPT !.stage = "failed"]
              ELSE rank' = [rank EXCEPT !.stage = "sorted", !.ranked = ord]
    /\ RankUnchanged

\* print_optimization_summary 548-556 on all_results: keep the results that
\* carry a non-None target metric, sort them in place.
print_optimization_summary ==
    /\ rank.stage = "sorted"
    /\ LET valid == SelectSeq2(rank.ranked,
                                {i \in DOMAIN rank.results :
                                    rank.has_key /\ ~IsNone(rank.results[i])})
           keys == [j \in DOMAIN valid |-> rank.results[valid[j]]]
       IN  \E ord \in SortOutcomes(keys) :
              rank' = [rank EXCEPT
                         !.stage = "summarised",
                         !.summary = [j \in DOMAIN valid |-> valid[ord[j]]]]
    /\ RankUnchanged

\* run_single_wfa_cycle 34: sorted(final_results, key=lambda x: x[target],
\* reverse=True)[0]; a KeyError or TypeError is not caught anywhere.
wfa_best_run ==
    /\ rank.stage = "collected"
    /\ IF ~rank.has_key \/ SortRaises(rank.results)
       THEN rank' = [rank EXCEPT !.stage = "wfa_aborted"]
       ELSE \E ord \in SortOutcomes(rank.results) :
              rank' = [rank EXCEPT !.stage = "wfa_ranked", !.ranked = ord]
    /\ RankUnchanged

RankNext ==
    \/ execute_optimization_rank
    \/ print_optimization_summary
    \/ wfa_best_run

RankSpec == RankInit /\ [][RankNext]_vars

(* ------------------------------------------------------------------ *)
(* run_walk_forward.main: the rolling train / test windows            *)
(* ------------------------------------------------------------------ *)

\* <<number of bars, train_period_days, test_period_days>>: short series and
\* the series of 400 bars with 200 / 50 days.
WfaConfigs ==
    {<<n, tr, te>> : n \in 5..MaxSeries, tr \in 1..2, te \in 0..2}
    \cup {<<400, 200, 50>>}

\* Timestamps count bar periods from the first bar: bar t of the series is
\* stamped t, and timedelta(days=1) spans bars_per_day of them.
one_day == bars_per_day

train_delta == wfa.train_days * one_day

test_delta == wfa.test_days * one_day

\* start_date = full_df.index[0] is 0; end_date = full_df.index[-1].
end_date == wfa.n_bars - 1

\* while current_date + train_delta + test_delta <= end_date
LoopCondition == wfa.cursor + train_delta + test_delta <= end_date

\* The bars of full_data.loc[a:b]: both ends belong to the slice.
Bars(a, b) == {t \in 0..end_date : a <= t /\ t <= b}

\* The windows main() computes for the cursor position `cur` (76-79).
Windows(cur) ==
    [train_start |-> cur,
     train_end |-> cur + train_delta,
     test_start |-> cur + train_delta + one_day,
     test_end |-> cur + train_delta + one_day + test_delta]

\* The keys of the dictionary run_single_wfa_cycle returns: those of
\* analyze_results and best_params.
oos_keys ==
    {"symbol", "period", "initial_value", "final_value", "total_return_pct",
     "sharpe_ratio", "max_drawdown_pct", "total_trades", "win_rate_pct",
     "best_params"}

\* The row of all_oos_results a recorded cycle adds: its keys and the value
\* of 'period', config['common'] start_date ~ end_date, the dates the series
\* was cut to; no row for a cycle that is not recorded.
Row(outcome) ==
    IF outcome = "recorded"
    THEN [keys |-> oos_keys, period |-> <<0, end_date>>]
    ELSE [keys |-> {}, period |-> <<0, 0>>]

Cycle(cur, opt, oos, outcome) ==
    [w |-> Windows(cur), opt |-> opt, oos |-> oos, outcome |-> outcome,
     row |-> Row(outcome)]

\* Mutant: the cursor moves past the whole cycle.
next_cursor_past_cycle(cur) == cur + train_delta + test_delta

\* Mutant: the cursor moves by one day.
next_cursor_one_day(cur) == cur + one_day

\* current_date += test_delta
next_cursor(cur) == cur + test_delta

WfaInit ==
    /\ StrategyIdle
    /\ bars_per_day \in Timeframes
    /\ grid = GridIdle
    /\ rank = RankIdle
    /\ ExtrasIdle
    /\ \E c \in WfaConfigs, b \in BOOLEAN :
          wfa = [n_bars |-> c[1], train_days |-> c[2], test_days |-> c[3],
                 bt_bound |-> b, pc |-> "loop", cursor |-> 0, cycles |-> <<>>]

WfaUnchanged ==
    UNCHANGED <<config, feed, strategy, position, pending, last, nsub,
                half_exits, sizer, grid, rank, extras>>

\* One pass of the while loop (75-91) with the call of run_single_wfa_cycle.
\* The callee reads the global name bt at line 16, before the optimization;
\* the module does not import it, and the NameError ends main() unless the
\* name was bound in the module from outside. Otherwise the optimization
\* yields no result (Warning, return None), results that line 34 cannot rank
\* (the exception ends main()), or a best run followed by the out-of-sample
\* run, whose analysis is appended to all_oos_results.
wfa_cycle ==
    /\ wfa.pc = "loop"
    /\ LoopCondition
    /\ Len(wfa.cycles) < MaxCycles
    /\ LET cur == wfa.cursor
       IN  IF ~wfa.bt_bound
           THEN wfa' = [wfa EXCEPT
                          !.pc = "failed",
                          !.cycles = Append(@, Cycle(cur, "not_run", FALSE, "raised"))]
           ELSE \/ wfa' = [wfa EXCEPT
                             !.cursor = next_cursor(cur),
                             !.cycles = Append(@, Cycle(cur, "empty", FALSE, "skipped"))]
                \/ wfa' = [wfa EXCEPT
                             !.pc = "failed",
                             !.cycles = Append(@, Cycle(cur, "unrankable", FALSE, "raised"))]
                \/ wfa' = [wfa EXCEPT
                             !.cursor = next_cursor(cur),
                             !.cycles = Append(@, Cycle(cur, "best", TRUE, "recorded"))]
    /\ WfaUnchanged

\* The loop condition fails: main() goes on to the report (93-111).
wfa_finish ==
    /\ wfa.pc = "loop"
    /\ ~LoopCondition
    /\ wfa' = [wfa EXCEPT !.pc = "done"]
    /\ WfaUnchanged

WfaNext ==
    \/ wfa_cycle
    \/ wfa_finish

WfaSpec == WfaInit /\ [][WfaNext]_vars

(* ------------------------------------------------------------------ *)
(* Variant A: SmaCrossStrategy                                        *)
(* ------------------------------------------------------------------ *)

\* self.crossover[0] of bt.indicators.CrossOver(sma_fast, sma_slow): m[3] is
\* sma_fast - sma_slow on this bar and m[2] the last non-zero difference
\* before it; +1 on a cross up, -1 on a cross down, 0 otherwise.
crossover ==
    IF m[2] < 0 /\ m[3] > 0 THEN 1
    ELSE IF m[2] > 0 /\ m[3] < 0 THEN -1
    ELSE 0

\* The bar loop of cerebro calls next() once per bar, after the broker's
\* notifications for that bar.
NextDue == last.op \in {"bar", "completed", "rejected"}

\* The state after SmaCrossStrategy.__init__: the class keeps no attribute
\* of its own besides the indicators.
SmaInit ==
    /\ variant = "A"
    /\ sl_mode = "ATR"
    /\ bars_per_day = 1
    /\ len_data = 0
    /\ m = <<0, 0, 0>>
    /\ close = 1
    /\ atr = 0
    /\ order = NoOrder
    /\ position_level = 0
    /\ peak_detected = FALSE
    /\ stop_price = None
    /\ entry_price = None
    /\ last_signal_bar = 0
    /\ position = Zero
    /\ pending = <<>>
    /\ last = Step("init")
    /\ nsub = 0
    /\ half_exits = 0
    /\ sizer = SizerIdle
    /\ RunnersIdle

\* The feed delivers the next bar: new close and new difference of the averages.
SmaNewBar ==
    /\ variant = "A"
    /\ ~NextDue
    /\ len_data < MaxBars
    /\ len_data' = len_data + 1
    /\ \E v \in MacdValues :
          m' = <<0, IF m[3] # 0 THEN m[3] ELSE m[2], v>>
    /\ close' \in Prices
    /\ nsub' = 0
    /\ last' = Step("bar")
    /\ UNCHANGED <<config, atr, strategy, position, pending, half_exits, aside>>

\* Strategy.buy / Strategy.close hand a non-zero size to the broker; the
\* strategy keeps no reference to the order.
sma_submit(o) ==
    IF o.size = Zero
    THEN UNCHANGED <<pending, nsub>>
    ELSE /\ pending' = Append(pending, o)
         /\ nsub' = nsub + 1

\* Strategy.close(): an order for the whole position against its direction.
sma_close_order ==
    IF RLess(Zero, position) THEN Order("sell", position, "close")
    ELSE Order("buy", RSub(Zero, position), "close")

\* elif self.crossover < 0, reached only when self.position is truthy.
sma_close_branch == position # Zero /\ crossover < 0

\* SmaCrossStrategy.next
sma_next ==
    /\ variant = "A"
    /\ NextDue
    /\ IF position = Zero /\ crossover > 0
       THEN \E cash \in Equities :
              /\ sma_submit(Order("buy", getsizing(cash), "buy"))
              /\ last' = Seen("next", TRUE, TRUE, FALSE,
                               Intent(Order("buy", getsizing(cash), "buy")))
       ELSE IF sma_close_branch
       THEN /\ sma_submit(sma_close_order)
            /\ last' = Seen("next", TRUE, FALSE, TRUE, "close")
       ELSE /\ last' = Seen("next", TRUE, FALSE, crossover < 0, "none")
            /\ UNCHANGED <<pending, nsub>>
    /\ UNCHANGED <<config, feed, strategy, position, half_exits, aside>>

\* The broker executes the oldest pending order (the strategy defines no
\* notify_order).
sma_order_completed ==
    /\ variant = "A"
    /\ NextDue
    /\ pending # <<>>
    /\ position' = filled(Head(pending))
    /\ pending' = Tail(pending)
    /\ last' = Step("completed")
    /\ UNCHANGED <<config, feed, strategy, nsub, half_exits, aside>>

\* The broker refuses the oldest pending order (Margin / Rejected).
sma_order_rejected ==
    /\ variant = "A"
    /\ NextDue
    /\ pending # <<>>
    /\ pending' = Tail(pending)
    /\ last' = Step("rejected")
    /\ UNCHANGED <<config, feed, strategy, position, nsub, half_exits, aside>>

SmaNext ==
    \/ SmaNewBar
    \/ sma_next
    \/ sma_order_completed
    \/ sma_order_rejected

SmaSpec == SmaInit /\ [][SmaNext]_vars

(* ------------------------------------------------------------------ *)
(* The peak test of next() along one MACD-line series                 *)
(* ------------------------------------------------------------------ *)

\* Values of macd_2_main.macd, in tenths.
ScanValues == {10, 12, 15, 18, 20}

ScanSeries == [1..MaxScan -> ScanValues]

ScanInit ==
    /\ StrategyIdle
    /\ bars_per_day = 1
    /\ grid = GridIdle
    /\ rank = RankIdle
    /\ wfa = WfaIdle
    /\ batch = BatchIdle
    /\ \E s \in ScanSeries : scan = [series |-> s, seen |-> <<>>]

\* The feed delivers the next value of the series; next() computes
\* is_macd_line_peaked on the bars it evaluates (after the warm-up return).
ScanBar ==
    /\ len_data < Len(scan.series)
    /\ len_data' = len_data + 1
    /\ m' = <<m[2], m[3], scan.series[len_data + 1]>>
    /\ scan' = [scan EXCEPT
                  !.seen = Append(@, [evaluated |-> ~WarmingUp',
                                      peaked |-> ~WarmingUp' /\ is_macd_line_peaked'])]
    /\ UNCHANGED <<config, close, atr, strategy, position, pending, last, nsub,
                   half_exits, sizer, grid, rank, wfa, batch>>

ScanNext == ScanBar

ScanSpec == ScanInit /\ [][ScanNext]_vars

(* ------------------------------------------------------------------ *)
(* The runner scripts: loading, analysing, handling errors, reporting *)
(* ------------------------------------------------------------------ *)

\* config['common']['initial_cash']
initial_cash == 1000

\* run_simple_backtest.py, run_optimization.py, run_walk_forward.py
Entries == {"simple", "opt", "wfa"}

\* config[...]['optimize_target']: the metrics select_optimization_target
\* offers, without sharpe_ratio, whose value the model does not compute.
Targets ==
    {"final_value", "total_return_pct", "calmar_ratio", "profit_factor",
     "win_rate_pct"}

\* Profit and loss of the closed trades of one run, as TradeAnalyzer sees them.
TradeLists == {<<>>, <<20>>, <<30, -10>>}

\* Number of combinations optstrategy generates for one sweep.
SweepSizes == {1, 2}

Dates == 1..MaxDate

\* A CSV file under data/ohlcv: absent, or holding rows for some dates.
Files == {[exists |-> FALSE, rows |-> {}]}
         \cup {[exists |-> TRUE, rows |-> r] : r \in SUBSET Dates}

\* df.loc[start:end] keeps the rows of both end dates and those between.
loc(rows, start, finish) == {d \in rows : start <= d /\ d <= finish}

\* Mutant: the feed is built without looking at the filtered frame.
get_data_feed_unchecked(file, start, finish) ==
    IF ~file.exists THEN "FileNotFoundError" ELSE "none"

\* The exception DataFactory.get_data_feed raises, "none" when it returns a feed.
get_data_feed(file, start, finish) ==
    IF ~file.exists THEN "FileNotFoundError"
    ELSE IF loc(file.rows, start, finish) = {} THEN "ValueError"
    ELSE "none"

\* The exception run_walk_forward.main raises while it loads the frame:
\* read_csv for an absent file, full_df.index[0] for an empty frame.
main_load(file, start, finish) ==
    IF ~file.exists THEN "FileNotFoundError"
    ELSE IF loc(file.rows, start, finish) = {} THEN "IndexError"
    ELSE "none"

\* The except clauses around the body of each script's loop.
handlers(entry) == IF entry = "wfa" THEN {} ELSE {"Exception"}

\* KeyboardInterrupt derives from BaseException, not from Exception.
Catches(clause, exc) ==
    \/ clause = exc
    \/ clause = "Exception" /\ exc # "KeyboardInterrupt"

Caught(entry, exc) == \E clause \in handlers(entry) : Catches(clause, exc)

RECURSIVE Sum(_)
Sum(trades) == IF trades = <<>> THEN 0 ELSE Head(trades) + Sum(Tail(trades))

RECURSIVE Won(_)
Won(trades) ==
    IF trades = <<>> THEN 0
    ELSE (IF Head(trades) > 0 THEN 1 ELSE 0) + Won(Tail(trades))

\* The keys of the dictionary analyze_results builds, without the two strings
\* (symbol, period) and the two analyzer ratios (sharpe_ratio,
\* max_drawdown_pct), whose values the model does not compute.
analysis_keys ==
    {"initial_value", "final_value", "total_return_pct", "total_trades",
     "win_rate_pct"}

\* BacktestEngine.analyze_results: final_value is the value of the engine's
\* broker at the time of the call.
analyze_results(broker_value, trades) ==
    [k \in analysis_keys |->
        CASE k = "initial_value" -> FromInt(initial_cash)
          [] k = "final_value" -> FromInt(broker_value)
          [] k = "total_return_pct" ->
                RMul(RSub(RDiv(FromInt(broker_value), FromInt(initial_cash)),
                          FromInt(1)),
                     FromInt(100))
          [] k = "total_trades" -> FromInt(Len(trades))
          [] k = "win_rate_pct" ->
                IF Len(trades) > 0
                THEN RMul(RDiv(FromInt(Won(trades)), FromInt(Len(trades))),
                          FromInt(100))
                ELSE Zero]

\* No dictionary: the analysis raised.
NoDict == [k \in {} |-> Zero]

\* The dictionary execute_backtest stores for a config that failed: symbol,
\* timeframe and an 'error' message, no metric.
error_result == [k \in {"error"} |-> FromInt(1)]

\* d[key] = v
with_key(d, key, v) ==
    [k \in DOMAIN d \cup {key} |-> IF k = key THEN v ELSE d[k]]

\* dict.get(key, default)
get(d, key, default) == IF key \in DOMAIN d THEN d[key] ELSE default

\* result.get('profit_factor', 0) or 0, the value the tables print.
profit_factor(d) ==
    LET v == get(d, "profit_factor", Zero) IN IF Truthy(v) THEN v ELSE Zero

\* The value of the engine's broker after cerebro.run() of a sweep: the cash
\* set before the run when the combinations ran in worker processes, the
\* value the last combination left when they ran one after the other in the
\* engine's own cerebro.
BrokerValues(trade_lists) ==
    {initial_cash, initial_cash + Sum(trade_lists[Len(trade_lists)])}

Load(unit, has_rows, exc) ==
    [unit |-> unit, has_rows |-> has_rows, exc |-> exc]

\* own: the value of the run's own broker at its end (no commission, no
\* position left open); params: the combination the run used, by its place
\* in the enumeration of the sweep.
Run(unit, sweep, params, trades, analysed, dict) ==
    [unit |-> unit, sweep |-> sweep, params |-> params, trades |-> trades,
     own |-> initial_cash + Sum(trades), analysed |-> analysed, dict |-> dict]

Result(unit, run, dict) == [unit |-> unit, run |-> run, dict |-> dict]

\* Whether the file has a row inside the requested range.
HasRows(file, start, finish) ==
    file.exists /\ \E d \in file.rows : start <= d /\ d <= finish

\* What loading can come to, over the files and date ranges of a request:
\* the two batch scripts load through DataFactory, the walk-forward script
\* reads the file itself.
Loads(entry, unit) ==
    {Load(unit, HasRows(file, start, finish),
          IF entry = "wfa" THEN main_load(file, start, finish)
          ELSE get_data_feed(file, start, finish)) :
        file \in Files, start \in Dates, finish \in Dates}

\* The runs of one sweep: every analysis reads the engine's one broker.
SweepRuns(unit, trade_lists, oks, shared) ==
    [i \in DOMAIN trade_lists |->
        Run(unit, TRUE, i, trade_lists[i],
            IF oks[i] THEN "ok" ELSE "failed",
            IF oks[i]
            THEN with_key(analyze_results(shared, trade_lists[i]),
                          "params", FromInt(i))
            ELSE NoDict)]

\* final_results, as positions in the sweep: the runs whose analysis returned.
FinalResults(oks) ==
    SelectSeq2([i \in DOMAIN oks |-> i], {i \in DOMAIN oks : oks[i]})

\* final_results in the order sorted(key=optimize_target, reverse=True) gives.
SortedResults(sweep, oks, target) ==
    LET final == FinalResults(oks)
        keys == [j \in DOMAIN final |->
                    get(sweep[final[j]].dict, target, Zero)]
        ord == sorted_desc(keys)
    IN  [j \in DOMAIN ord |-> final[ord[j]]]

\* Mutant: the last analysed combination is taken.
best_run_last(sweep, oks, target) ==
    FinalResults(oks)[Len(FinalResults(oks))]

\* best_run = sorted(final_results, key=lambda x: x[target], reverse=True)[0],
\* as a position in the sweep.
best_run(sweep, oks, target) ==
    LET final == FinalResults(oks)
        keys == [j \in DOMAIN final |-> sweep[final[j]].dict[target]]
    IN  final[sorted_desc(keys)[1]]

\* The ranking print_optimization_summary prints, as positions in all_results:
\* the results that carry the target metric, sorted by it.
valid_results(all_results, target) ==
    LET valid == SelectSeq2([j \in DOMAIN all_results |-> j],
                            {j \in DOMAIN all_results :
                                /\ target \in DOMAIN all_results[j].dict
                                /\ ~IsNone(all_results[j].dict[target])})
        keys == [j \in DOMAIN valid |-> all_results[valid[j]].dict[target]]
        ord == sorted_desc(keys)
    IN  [j \in DOMAIN ord |-> valid[ord[j]]]

BatchInit ==
    /\ StrategyIdle
    /\ bars_per_day = 1
    /\ grid = GridIdle
    /\ rank = RankIdle
    /\ wfa = WfaIdle
    /\ scan = ScanIdle
    /\ \E e \in Entries, n \in 1..MaxUnits, b \in BOOLEAN,
          t \in Targets :
          batch = [entry |-> e, pc |-> IF e = "wfa" THEN "load" ELSE "loop",
                   bt_bound |-> (e # "wfa" \/ b), n_units |-> n, unit |-> 0,
                   target |-> IF e = "simple" THEN "none" ELSE t,
                   summary |-> <<>>, failed |-> <<>>,
                   loads |-> <<>>, runs |-> <<>>, results |-> <<>>,
                   reported |-> <<>>]

BatchUnchanged ==
    UNCHANGED <<config, feed, strategy, position, pending, last, nsub,
                half_exits, sizer, grid, rank, wfa, scan>>

\* Where the processing of one config of execute_backtest can fail: loading
\* the data (459-466), adding the strategy (479-495), engine.run() (499-504),
\* analyze_results (517-527); "none" when nothing fails.
Stages == {"none", "strategy", "run", "analysis"}

on_error_skip(results, u) == results

\* The handler of the loop body (556-563): an entry with 'error' is stored.
on_error(results, u) == Append(results, Result(u, 0, error_result))

\* One pass of the loop of execute_backtest (run_simple_backtest.py 455-563).
\* batch.failed records, for each processed config, the stage that failed.
execute_backtest_step ==
    /\ batch.entry = "simple"
    /\ batch.pc = "loop"
    /\ batch.unit < batch.n_units
    /\ \E load \in Loads(batch.entry, batch.unit + 1) :
          LET u == batch.unit + 1
              exc == load.exc
          IN  IF exc # "none"
              THEN \* except Exception (556)
                   /\ Caught(batch.entry, exc)
                   /\ batch' = [batch EXCEPT
                          !.unit = u,
                          !.loads = Append(@, load),
                          !.failed = Append(@, "data"),
                          !.results = on_error(@, u)]
              ELSE \E stage \in Stages :
                   IF stage = "strategy"
                   THEN \* re-raised (493-495) and caught by the loop's handler
                        /\ Caught(batch.entry, "Exception")
                        /\ batch' = [batch EXCEPT
                               !.unit = u,
                               !.loads = Append(@, load),
                               !.failed = Append(@, stage),
                               !.results = on_error(@, u)]
                   ELSE IF stage = "run"
                   THEN \* results = None (502-504), the entry of 528-534
                        batch' = [batch EXCEPT
                               !.unit = u,
                               !.loads = Append(@, load),
                               !.failed = Append(@, stage),
                               !.results = Append(@, Result(u, 0, error_result))]
                   ELSE /\ Len(batch.runs) < MaxRuns
                        /\ \E trades \in TradeLists :
                              LET ok == stage = "none"
                                  own == initial_cash + Sum(trades)
                                  run == Run(u, FALSE, 1, trades,
                                             IF ok THEN "ok" ELSE "failed",
                                             IF ok
                                             THEN analyze_results(own, trades)
                                             ELSE NoDict)
                                  \* except Exception (520): the default entry
                                  d == IF ok THEN run.dict ELSE error_result
                              IN  batch' = [batch EXCEPT
                                     !.unit = u,
                                     !.loads = Append(@, load),
                                     !.failed = Append(@, stage),
                                     !.runs = Append(@, run),
                                     !.results =
                                         Append(@, Result(u, Len(batch.runs) + 1, d))]
    /\ BatchUnchanged

\* One pass of the loop of execute_optimization (run_optimization.py 747-822).
execute_optimization_step ==
    /\ batch.entry = "opt"
    /\ batch.pc = "loop"
    /\ batch.unit < batch.n_units
    /\ \E load \in Loads(batch.entry, batch.unit + 1) :
          LET u == batch.unit + 1
              exc == load.exc
          IN  IF exc # "none"
              THEN \* except Exception (821): the error is printed
                   /\ Caught(batch.entry, exc)
                   /\ batch' = [batch EXCEPT
                          !.unit = u, !.loads = Append(@, load)]
              ELSE \E k \in SweepSizes :
                   /\ Len(batch.runs) + k <= MaxRuns
                   /\ \E trade_lists \in [1..k -> TradeLists],
                         oks \in [1..k -> BOOLEAN] :
                      \E shared \in BrokerValues(trade_lists) :
                         LET base == Len(batch.runs)
                             sweep == SweepRuns(u, trade_lists, oks, shared)
                             \* a run whose analysis raises is left out (793-795)
                             sorted == SortedResults(sweep, oks, batch.target)
                             added == [j \in DOMAIN sorted |->
                                          Result(u, base + sorted[j],
                                                 sweep[sorted[j]].dict)]
                         IN  batch' = [batch EXCEPT
                                !.unit = u,
                                !.loads = Append(@, load),
                                !.runs = @ \o sweep,
                                !.results = @ \o added]
    /\ BatchUnchanged

\* run_walk_forward.main up to the loop (53-70): no handler around it.
wfa_main_load ==
    /\ batch.entry = "wfa"
    /\ batch.pc = "load"
    /\ \E load \in Loads(batch.entry, 0) :
          LET exc == load.exc
          IN  batch' = [batch EXCEPT
                 !.loads = Append(@, load),
                 !.pc = IF exc = "none" \/ Caught(batch.entry, exc)
                        THEN "loop" ELSE "crashed"]
    /\ BatchUnchanged

\* One pass of the loop of run_walk_forward.main (75-91) with the cycle it
\* calls, run_single_wfa_cycle (9-48).
wfa_main_cycle ==
    /\ batch.entry = "wfa"
    /\ batch.pc = "loop"
    /\ batch.unit < batch.n_units
    /\ LET u == batch.unit + 1
       IN  IF ~batch.bt_bound
           THEN \* NameError at line 16
                batch' = [batch EXCEPT !.pc = "crashed"]
           ELSE \E k \in SweepSizes :
                /\ Len(batch.runs) + k + 1 <= MaxRuns
                /\ \E trade_lists \in [1..k -> TradeLists],
                      oks \in [1..k -> BOOLEAN] :
                   \E shared \in BrokerValues(trade_lists) :
                      LET base == Len(batch.runs)
                          all == SweepRuns(u, trade_lists, oks, shared)
                          failed == {i \in 1..k : ~oks[i]}
                          first == CHOOSE i \in failed :
                                      \A j \in failed : i <= j
                          \* the exception of line 26 leaves the loop: the
                          \* later runs of the sweep are not analysed
                          sweep == [i \in 1..k |->
                                      IF failed # {} /\ i > first
                                      THEN [all[i] EXCEPT
                                              !.analysed = "not reached",
                                              !.dict = NoDict]
                                      ELSE all[i]]
                      IN  IF failed # {} \/ batch.target \notin DOMAIN sweep[1].dict
                          THEN \* the exception of line 26, or the KeyError
                               \* of x[target] at line 34
                               batch' = [batch EXCEPT
                                  !.runs = @ \o sweep, !.pc = "crashed"]
                          ELSE \E trades \in TradeLists, ok \in BOOLEAN :
                               LET own == initial_cash + Sum(trades)
                                   best == best_run(sweep, oks, batch.target)
                                   best_params == sweep[best].params
                                   test == Run(u, FALSE, best_params, trades,
                                               IF ok THEN "ok" ELSE "failed",
                                               IF ok
                                               THEN with_key(
                                                      analyze_results(own, trades),
                                                      "best_params",
                                                      FromInt(best_params))
                                               ELSE NoDict)
                               IN  IF ok
                                   THEN batch' = [batch EXCEPT
                                           !.unit = u,
                                           !.runs = (@ \o sweep) \o <<test>>,
                                           !.results =
                                              Append(@, Result(u, base + k + 1,
                                                               test.dict))]
                                   ELSE batch' = [batch EXCEPT
                                           !.runs = (@ \o sweep) \o <<test>>,
                                           !.pc = "crashed"]
    /\ BatchUnchanged

\* Ctrl-C while a config or cycle is being processed.
keyboard_interrupt ==
    /\ batch.pc = "loop"
    /\ batch.unit < batch.n_units
    /\ ~Caught(batch.entry, "KeyboardInterrupt")
    /\ batch' = [batch EXCEPT !.pc = "interrupted"]
    /\ BatchUnchanged

\* After the loop: print_comparison_table, print_optimization_summary, or the
\* summary and wfa_summary.csv of run_walk_forward.main.
batch_report ==
    /\ batch.pc = "loop"
    /\ batch.unit = batch.n_units
    /\ batch' = [batch EXCEPT
                   !.reported = batch.results,
                   !.summary = IF batch.entry = "opt"
                               THEN valid_results(batch.results, batch.target)
                               ELSE <<>>,
                   !.pc = "done"]
    /\ BatchUnchanged

BatchNext ==
    \/ execute_backtest_step
    \/ execute_optimization_step
    \/ wfa_main_load
    \/ wfa_main_cycle
    \/ keyboard_interrupt
    \/ batch_report

BatchSpec == BatchInit /\ [][BatchNext]_vars

(* ------------------------------------------------------------------ *)
(* Properties                                                         *)
(* ------------------------------------------------------------------ *)

NextStep == last'.op = "next"

\* C1: in Variants B and C at most one order is submitted per bar index,
\* whatever the fills and rejections and however often next() is called
\* for the same bar.
C1_AtMostOneOrderPerBar == nsub <= 1

\* C1 witness: an order was submitted on this bar, it was resolved, and next()
\* ran again for the same bar without submitting another one.
C1_Witness ==
    /\ nsub = 1
    /\ last.op = "next"
    /\ order = NoOrder
    /\ last_signal_bar = len_data

\* C2: while a submitted order is unresolved at the broker or the
\* pending-order marker is set, a call of next() submits no order and changes
\* no strategy state (level, peak flag, stop price, entry price, marker, last
\* signal bar).
C2_PendingBlocksNext ==
    [][(NextStep /\ (order # NoOrder \/ pending # <<>>))
        => (UNCHANGED strategy /\ UNCHANGED pending /\ nsub' = nsub)]_vars

\* C2 witness: next() ran on a closed bar after warm-up with a position held
\* and the half-exit condition true, and only the pending order stopped it.
C2_Witness ==
    /\ last.op = "next"
    /\ last.intent = "none"
    /\ order # NoOrder
    /\ ~WarmingUp /\ ~BarNotClosed /\ ~AlreadySignalled
    /\ position # Zero
    /\ half_exit_condition

\* C3: position_level changes only Flat->Full (a call of next() whose entry
\* condition held), Full->Half (a call of next() that submitted the half sell
\* on a peak) and Half-or-Full->Flat (the completion of a close that leaves no
\* position); never Half->Full or Flat->Half.
C3_LevelTransitions ==
    [][position_level' # position_level =>
        \/ /\ position_level = 0 /\ position_level' = 2
           /\ NextStep /\ last'.entry_cond
        \/ /\ position_level = 2 /\ position_level' = 1
           /\ NextStep /\ last'.intent = "half" /\ is_macd_line_peaked
        \/ /\ position_level \in {1, 2} /\ position_level' = 0
           /\ last'.op = "completed" /\ position' = Zero
           /\ Head(pending).tag \in {"close", "stop"}]_vars

\* C3 witness: the level is Half after the half sell was filled, reached
\* through Flat -> Full -> Half.
C3_Witness ==
    /\ position_level = 1
    /\ half_exits = 1
    /\ order = NoOrder
    /\ position # Zero
    /\ last.op = "completed"

\* C4: a half exit is submitted only by a call that finds the level Full, the
\* peak flag clear and a local peak of the signal MACD line; it sells half of
\* the held size, sets the level to Half and the peak flag, and it is the only
\* half exit since the last entry.
C4_HalfExitOnce ==
    [][(NextStep /\ last'.intent = "half") =>
        /\ position_level = 2 /\ ~peak_detected /\ is_macd_line_peaked
        /\ position_level' = 1 /\ peak_detected'
        /\ order' = Order("sell", RDiv(position, FromInt(2)), "half")
        /\ half_exits' = 1]_vars

\* C4 witness: the state right after a half exit was submitted.
C4_Witness ==
    /\ last.op = "next"
    /\ last.intent = "half"
    /\ position_level = 1
    /\ peak_detected
    /\ half_exits = 1
    /\ order.tag = "half"

\* C5 (as claimed): on every evaluated bar with a position held, level > Flat
\* and a cross-down of the signal MACD line, a Close of the remaining position
\* is submitted on that bar.
C5_CloseOnEveryCrossDown ==
    [][(NextStep /\ last'.evaluated /\ position # Zero /\ position_level > 0
        /\ last'.cross_down)
        => last'.intent \in {"close", "stop"}]_vars

\* C6 (as claimed): in Variant C the stop price is defined iff the level is
\* above Flat.
C6_StopDefinedIffHeld ==
    variant = "C" => (~IsNone(stop_price) <=> position_level > 0)

\* C7 (as claimed): in Variant C, a call of next() on a bar after warm-up, with
\* no order pending and no signal yet recorded for the bar, a position held and
\* close <= the stored stop price submits a Close, the only order of the bar,
\* and leaves level and peak flag alone.
C7_StopLossOnEveryBar ==
    [][(variant = "C" /\ NextStep /\ order = NoOrder /\ ~WarmingUp
        /\ ~AlreadySignalled /\ position # Zero /\ ~IsNone(stop_price)
        /\ RLeq(FromInt(close), stop_price))
        => (last'.intent = "stop" /\ nsub' = 1
            /\ UNCHANGED <<position_level, peak_detected>>)]_vars

\* C8: in Variant C entry price, stop price, level and peak flag are reset
\* only by an order completion that leaves a zero position, and then all four
\* are reset; no submission, partial close or rejection resets any of them.
C8_ResetOnlyWhenFlat ==
    [][(variant = "C"
        /\ \/ (~IsNone(entry_price) /\ IsNone(entry_price'))
           \/ (~IsNone(stop_price) /\ IsNone(stop_price'))
           \/ (position_level > 0 /\ position_level' = 0)
           \/ (peak_detected /\ ~peak_detected'))
        => /\ last'.op = "completed"
           /\ position' = Zero
           /\ IsNone(entry_price') /\ IsNone(stop_price')
           /\ position_level' = 0 /\ ~peak_detected']_vars

\* C8 witness: Variant C right after the completion of the close that ended a
\* position: everything is reset.
C8_Witness ==
    /\ variant = "C"
    /\ last.op = "completed"
    /\ position = Zero
    /\ position_level = 0
    /\ IsNone(stop_price) /\ IsNone(entry_price)
    /\ last_signal_bar # 0

\* C9: a Canceled / Margin / Rejected notification clears the pending-order
\* marker and changes neither level, peak flag, entry price, stop price nor the
\* position, so the next call of next() is not stopped by the pending guard.
C9_RejectionKeepsState ==
    [][last'.op = "rejected" =>
        /\ order' = NoOrder
        /\ ~PendingGuard'
        /\ UNCHANGED <<position_level, peak_detected, entry_price, stop_price,
                       position>>]_vars

\* C9 witness: a rejected half sell: the marker is clear, the position is
\* still whole, and the state is what the submission left.
C9_Witness ==
    /\ last.op = "rejected"
    /\ order = NoOrder
    /\ position # Zero
    /\ position_level = 1
    /\ peak_detected

\* C10 (as claimed): calculate_position_size returns a size > 0 for every input.
C10_SizePositive == sizer.done => RLess(Zero, sizer.result)

SizerFinite ==
    /\ IsFinite(sizer.entry_price)
    /\ IsFinite(sizer.stop_distance)
    /\ IsFinite(sizer.value)

\* C11: for a positive entry price and finite inputs, stop_distance > 0 gives
\* (equity * risk_pct / 100) / stop_distance / entry_price, raised to min_qty
\* when smaller; stop_distance = 0 gives 2% of the equity divided by the entry
\* price; equity 10000, entry 100 and stop distance 2 give 1/2.
C11_SizeFormula ==
    (sizer.done /\ SizerFinite /\ sizer.entry_price[1] > 0) =>
        LET e == sizer.entry_price
            d == sizer.stop_distance
            v == sizer.value
            raw == Rat(v[1] * risk_pct * d[2] * e[2], v[2] * 100 * d[1] * e[1])
        IN  /\ d[1] > 0 =>
                sizer.result = (IF RLess(raw, min_qty) THEN min_qty ELSE raw)
            /\ d[1] = 0 =>
                sizer.result = Rat(v[1] * 2 * e[2], v[2] * 100 * e[1])
            /\ (e = FromInt(100) /\ d = FromInt(2) /\ v = FromInt(10000)) =>
                sizer.result = <<1, 2>>

\* C11 witness: the call with equity 10000, entry 100 and stop distance 2
\* has returned 1/2.
C11_Witness ==
    /\ sizer.done
    /\ sizer.entry_price = FromInt(100)
    /\ sizer.stop_distance = FromInt(2)
    /\ sizer.value = FromInt(10000)
    /\ sizer.result = <<1, 2>>

\* C12 (as claimed): when the entry price is zero (the division fails) or one
\* of stop distance, equity and entry price is not finite, the call returns
\* exactly min_qty.
C12_FailureGivesMinQty ==
    (sizer.done /\ (sizer.entry_price = Zero \/ ~SizerFinite)) =>
        sizer.result = min_qty

\* Number of values of one grid entry under range(start, end, step): the end
\* is excluded.
ImpliedExclusive(e) ==
    IF e.form = "fixed" THEN 1
    ELSE IF e.end > e.start THEN (e.end - e.start + e.step - 1) \div e.step
    ELSE 0

\* The same with the end included.
ImpliedInclusive(e) ==
    IF e.form = "fixed" THEN 1
    ELSE IF e.end >= e.start THEN (e.end - e.start) \div e.step + 1
    ELSE 0

RECURSIVE ImpliedProduct(_, _)
ImpliedProduct(params, inclusive) ==
    IF params = <<>> THEN 1
    ELSE (IF inclusive THEN ImpliedInclusive(Head(params))
          ELSE ImpliedExclusive(Head(params)))
         * ImpliedProduct(Tail(params), inclusive)

\* C13 (as claimed): for every grid handed to add_optimizer the number of
\* runs equals the product of the value counts implied by the (start, end,
\* step) ranges, 1 for a fixed value, under one convention for the end
\* (excluded for all parameters, or included for all).
C13_CombinationCount ==
    grid.stage \in {"run", "raised"} =>
        \/ grid.n_runs = ImpliedProduct(grid.params, FALSE)
        \/ grid.n_runs = ImpliedProduct(grid.params, TRUE)

\* The target metric of analysis i is an ordinary number.
FiniteMetric(i) == rank.has_key /\ IsFinite(rank.results[i])

\* `ord` lists every analysis of the sweep exactly once.
RanksAll(ord) ==
    /\ Len(ord) = Len(rank.results)
    /\ \A i \in DOMAIN rank.results : \E r \in DOMAIN ord : ord[r] = i

\* Descending by the target metric, equal metrics in enumeration ord.
DescendingStable(ord) ==
    \A r1, r2 \in DOMAIN ord :
        r1 < r2 =>
            /\ RLeq(rank.results[ord[r2]], rank.results[ord[r1]])
            /\ rank.results[ord[r2]] = rank.results[ord[r1]] =>
                   ord[r1] < ord[r2]

\* C14: when every analysis of a sweep carries a number as target metric, the
\* list the sweep (or a walk-forward cycle) ranks and the list the summary
\* prints hold every analysis once, in descending ord of the metric, with
\* equal metrics in combination enumeration ord.
C14_SortedDescendingStable ==
    (rank.stage \in {"sorted", "summarised", "wfa_ranked"}
       /\ \A i \in DOMAIN rank.results : FiniteMetric(i)) =>
        /\ RanksAll(rank.ranked)
        /\ DescendingStable(rank.ranked)
        /\ rank.stage = "summarised" =>
               RanksAll(rank.summary) /\ DescendingStable(rank.summary)

\* C14 witness: the metrics 1, 2, 1 were ranked second, first, third.
C14_Witness ==
    /\ rank.stage = "sorted"
    /\ rank.has_key
    /\ rank.results = <<FromInt(1), FromInt(2), FromInt(1)>>
    /\ rank.ranked = <<2, 1, 3>>

\* No analysis without a finite metric is listed before one with a finite metric.
NonFiniteLast(ord) ==
    \A r1, r2 \in DOMAIN ord :
        (r1 < r2 /\ FiniteMetric(ord[r2])) => FiniteMetric(ord[r1])

\* C15 (as claimed): once a sweep or a walk-forward cycle has ranked its
\* analyses, the ranking did not abort, every analysis is in the ranked list
\* (and in the summary), and those whose target metric is None, nan or missing
\* come after all those with a finite metric.
C15_NonFiniteRankedLast ==
    rank.stage \notin {"idle", "collected"} =>
        /\ rank.stage \notin {"failed", "wfa_aborted"}
        /\ RanksAll(rank.ranked)
        /\ NonFiniteLast(rank.ranked)
        /\ rank.stage = "summarised" =>
               RanksAll(rank.summary) /\ NonFiniteLast(rank.summary)

\* C16 (as claimed): in every cycle the test window starts one bar period
\* after the train window ends, and the test windows of consecutive cycles
\* have no bar in common.
C16_TestWindowsDisjoint ==
    \A n \in DOMAIN wfa.cycles :
        /\ wfa.cycles[n].w.test_start = wfa.cycles[n].w.train_end + 1
        /\ (n + 1) \in DOMAIN wfa.cycles =>
               Bars(wfa.cycles[n].w.test_start, wfa.cycles[n].w.test_end)
                 \cap Bars(wfa.cycles[n + 1].w.test_start,
                           wfa.cycles[n + 1].w.test_end) = {}

\* The cursor positions start + k * test_length for which
\* cursor + train_length + test_length does not exceed the length of the series.
FittingCursors ==
    {k * test_delta : k \in {j \in 0..wfa.n_bars :
                                j * test_delta + train_delta + test_delta
                                    <= wfa.n_bars}}

\* The cycles that ran to their end (skipped or recorded).
CompletedCursors ==
    {wfa.cycles[n].w.train_start :
        n \in {j \in DOMAIN wfa.cycles : wfa.cycles[j].outcome # "raised"}}

\* C17 (as claimed): when the pipeline stops it has run exactly one cycle for
\* each cursor start + k * test_length that fits, and 400 daily bars with
\* 200 / 50 days give exactly 4 cycles.
C17_OneCyclePerFittingCursor ==
    wfa.pc \in {"done", "failed"} =>
        /\ CompletedCursors = FittingCursors
        /\ Len(wfa.cycles) = Cardinality(FittingCursors)
        /\ (wfa.n_bars = 400 /\ bars_per_day = 1) => Len(wfa.cycles) = 4

\* C18 (as claimed): the train window is [cursor, cursor + train_length], the
\* test window starts the day after the train end, ends exactly test_length
\* after the train end, and does not reach past the last bar.
C18_WindowBounds ==
    \A n \in DOMAIN wfa.cycles :
        LET w == wfa.cycles[n].w
        IN  /\ w.train_end = w.train_start + train_delta
            /\ w.test_start = w.train_end + one_day
            /\ w.test_end = w.train_end + test_delta
            /\ w.test_end <= end_date

C20_SkipAndContinue ==
    \A n \in DOMAIN wfa.cycles :
        LET c == wfa.cycles[n]
        IN  /\ c.outcome = "recorded" => c.opt = "best"
            /\ c.opt \in {"empty", "not_run"} =>
                   /\ c.outcome = "skipped"
                   /\ ~c.oos
                   /\ (n = Len(wfa.cycles) => wfa.pc # "failed")

\* Bar t has two bars before it and the bar before it is a strict local maximum.
StrictPeakAt(t) ==
    /\ t >= 3
    /\ scan.series[t - 2] < scan.series[t - 1]
    /\ scan.series[t - 1] > scan.series[t]

\* C21: on every bar next() evaluates, the peak test is true iff
\* value[t-2] < value[t-1] and value[t-1] > value[t], both strict; it is true
\* on no bar whose t-2 lies before the series start; along 1.0, 1.5, 2.0, 1.8,
\* 1.2 it is true at bar 3 (counting from 0) and at no other bar.
C21_PeakTest ==
    /\ \A t \in DOMAIN scan.seen :
          /\ scan.seen[t].evaluated =>
                 (scan.seen[t].peaked <=> StrictPeakAt(t))
          /\ scan.seen[t].peaked => scan.seen[t].evaluated /\ t >= 3
    /\ (scan.series = <<10, 15, 20, 18, 12>> /\ Len(scan.seen) = 5
           /\ scan.seen[4].evaluated) =>
          {t \in DOMAIN scan.seen : scan.seen[t].peaked} = {4}

\* C21 witness: the series 1.0, 1.5, 2.0, 1.8, 1.2 was scanned to its end and
\* the test was true at its fourth bar.
C21_Witness ==
    /\ scan.series = <<10, 15, 20, 18, 12>>
    /\ Len(scan.seen) = 5
    /\ scan.seen[4].evaluated
    /\ scan.seen[4].peaked
    /\ ~scan.seen[5].peaked

\* The sizes one entry of Variant A can have: 95% of the cash at the close.
SmaEntrySizes ==
    {RMul(RDiv(FromInt(c), FromInt(p)), <<95, 100>>) : c \in Equities, p \in Prices}

ExpectedProfitFactor(trades) ==
    LET profit == Sum(SelectSeq(trades, LAMBDA t : t > 0))
        loss == 0 - Sum(SelectSeq(trades, LAMBDA t : t < 0))
    IN  IF loss = 0 THEN Zero ELSE RDiv(FromInt(profit), FromInt(loss))

\* C23: within a sweep, the final value and the total return of each analysed
\* combination are those of that combination's own run, not of state shared
\* with the other combinations.
C23_SweepResultsIndependent ==
    \A i \in DOMAIN batch.runs :
        LET r == batch.runs[i] IN
        (r.sweep /\ r.analysed = "ok") =>
            /\ r.dict["final_value"] = FromInt(r.own)
            /\ r.dict["total_return_pct"] =
                  FromInt(((r.own - initial_cash) * 100) \div initial_cash)

\* C24: a run whose analysis failed stays in the result list, flagged and
\* without metric values, and the batch goes on.
C24_FailedAnalysisKept ==
    \A i \in DOMAIN batch.runs :
        batch.runs[i].analysed = "failed" =>
            /\ batch.pc # "crashed"
            /\ \E j \in DOMAIN batch.results :
                  /\ batch.results[j].run = i
                  /\ "error" \in DOMAIN batch.results[j].dict
                  /\ DOMAIN batch.results[j].dict \cap analysis_keys = {}

\* C25: a request for data with no row in the range, or with no file, ends in
\* an error and no run is made for it, in each of the three scripts.
C25_EmptyDataIsError ==
    \A i \in DOMAIN batch.loads :
        LET l == batch.loads[i] IN
        ~l.has_rows =>
            /\ l.exc # "none"
            /\ \A j \in DOMAIN batch.runs :
                  \* the load of the walk-forward script (0) serves all cycles
                  l.unit \notin {0, batch.runs[j].unit}

C25_Witness ==
    /\ batch.entry = "opt"
    /\ batch.unit = 2
    /\ ~batch.loads[1].has_rows
    /\ batch.loads[1].exc = "ValueError"
    /\ batch.loads[2].has_rows
    /\ batch.runs # <<>>

\* C26: after an interruption the results completed so far are reported.
C26_InterruptReportsCompleted ==
    batch.pc = "interrupted" => batch.reported = batch.results

\* C27: the profit factor of every result of a run is gross profit over gross
\* loss of the run's trades, 0 without losing trades.
C27_ProfitFactor ==
    \A j \in DOMAIN batch.results :
        LET r == batch.results[j] IN
        (r.run # 0 /\ batch.runs[r.run].analysed = "ok") =>
            profit_factor(r.dict) = ExpectedProfitFactor(batch.runs[r.run].trades)

\* C28: in Variants B and C a call of next() submits a buy only when no
\* position is held, the MACD lines of all three instances are higher than on
\* the previous bar and the 5/40 line is above zero; with the buy the level
\* becomes Full (2) and the peak flag is cleared.
C28_EntryCondition ==
    [][(/\ NextStep
        /\ Len(pending') > Len(pending)
        /\ pending'[Len(pending')].kind = "buy")
       => /\ position = Zero
          /\ last'.trends = <<TRUE, TRUE>>
          /\ m[3] > m[2]
          /\ m[3] > 0
          /\ position_level' = 2
          /\ peak_detected' = FALSE]_vars

C28_Witness ==
    /\ last.op = "next"
    /\ last.intent = "buy"
    /\ order.kind = "buy"
    /\ position = Zero
    /\ m[3] > m[2] /\ m[3] > 0
    /\ position_level = 2
    /\ ~peak_detected

\* A buy of Variant C was confirmed filled in this step and a position is open.
BuyFilled ==
    /\ last'.op = "completed"
    /\ Head(pending).kind = "buy"
    /\ position' # Zero

\* C29: in Variant C a confirmed buy fill sets the stop price to the fill
\* price less the stop distance of the fill price, and while a position stays
\* open no other step changes the stop price.
C29_StopPriceSetOnBuyFill ==
    [][variant = "C" =>
        /\ BuyFilled =>
              stop_price' =
                 RSub(entry_price', stop_distance_for(sl_mode, atr, entry_price'))
        /\ (stop_price' # stop_price /\ position' # Zero) => BuyFilled]_vars

\* C29 witness: the half sell was filled and the stop is still the one the
\* buy fill set.
C29_Witness ==
    /\ variant = "C"
    /\ last.op = "completed"
    /\ position_level = 1
    /\ position # Zero
    /\ half_exits >= 1
    /\ Truthy(stop_price)
    /\ stop_price = RSub(entry_price, stop_distance_for(sl_mode, atr, entry_price))

\* C31: in Variants B and C, whenever no order is pending, position_level is
\* Flat (0) exactly when the held size is zero, and it is Half (1) only after
\* a half-exit sell of the current entry (submitted, hence counted, before it
\* can be filled).
C31_LevelAgreesWithPosition ==
    (order = NoOrder /\ pending = <<>>) =>
        /\ position_level = 0 <=> position = Zero
        /\ position_level = 1 => half_exits >= 1

\* C32: in Variants B and C a call of next() on a bar later than the previous
\* one (every bar of the feed is), with no order pending, the warm-up passed
\* and no signal yet on that bar, evaluates the bar, on intraday feeds too.
C32_LaterBarIsEvaluated ==
    [][(/\ NextStep
        /\ order = NoOrder
        /\ ~WarmingUp
        /\ ~AlreadySignalled)
       => last'.evaluated]_vars

\* The set of values a sequence lists.
ValueSet(seq) == {seq[j] : j \in DOMAIN seq}

\* C33: a (start, end, step) range of integers handed over as a 3-tuple is
\* expanded to the same set of values as the 3-element list of the same
\* numbers.
C33_TupleExpandsLikeList ==
    grid.stage \in {"added", "run"} =>
        \A i \in DOMAIN grid.params :
            LET e == grid.params[i] IN
            (e.form = "tuple" /\ ~e.floats) =>
                ValueSet(grid.opt_params[i]) =
                    ValueSet(RangeValues(e.start, e.end, e.step))

C35_WindowsOfCycleK ==
    \A n \in DOMAIN wfa.cycles :
        LET w == wfa.cycles[n].w
            from == (n - 1) * wfa.test_days * bars_per_day
        IN  /\ w.train_start = from
            /\ w.train_end = from + wfa.train_days * bars_per_day
            /\ w.test_start = w.train_end + bars_per_day
            /\ w.test_end = w.test_start + wfa.test_days * bars_per_day

\* C35 witness: the third pass follows a skipped and a recorded one.
C35_Witness ==
    /\ Len(wfa.cycles) >= 3
    /\ wfa.test_days = 2
    /\ wfa.cycles[1].outcome = "skipped"
    /\ wfa.cycles[2].outcome = "recorded"
    /\ wfa.cycles[3].w.train_start = 4 * bars_per_day

\* The runs of the train sweep of cycle u, as positions in batch.runs.
TrainRuns(u) ==
    {i \in DOMAIN batch.runs : batch.runs[i].unit = u /\ batch.runs[i].sweep}

\* The train runs of cycle u no other train run of the cycle beats on the
\* target metric.
TopRanked(u) ==
    {i \in TrainRuns(u) :
        \A i2 \in TrainRuns(u) :
            ~RLess(batch.runs[i].dict[batch.target],
                   batch.runs[i2].dict[batch.target])}

\* C36: each recorded walk-forward cycle has one out-of-sample run, run with
\* the parameters of the earliest-enumerated train combination among those
\* with the highest target metric, and the cycle's one result is that run's
\* analysis, carrying those parameters.
C36_TestUsesTopRanked ==
    batch.entry = "wfa" =>
        \A j \in DOMAIN batch.results :
            LET res == batch.results[j]
                test == batch.runs[res.run]
            IN  /\ ~test.sweep
                /\ test.unit = res.unit
                /\ \E i \in TopRanked(res.unit) :
                      /\ test.params = batch.runs[i].params
                      /\ \A i2 \in TopRanked(res.unit) :
                            batch.runs[i].params <= batch.runs[i2].params
                /\ res.dict["best_params"] = FromInt(test.params)
                /\ \A j2 \in DOMAIN batch.results :
                      batch.results[j2].unit = res.unit => j2 = j
                /\ \A i \in DOMAIN batch.runs :
                      (batch.runs[i].unit = res.unit /\ ~batch.runs[i].sweep)
                          => i = res.run

\* C36 witness: the second of two train combinations had the higher win rate
\* and the out-of-sample run used it.
C36_Witness ==
    /\ batch.entry = "wfa"
    /\ batch.target = "win_rate_pct"
    /\ Len(batch.results) = 1
    /\ Len(batch.runs) = 3
    /\ batch.runs[1].trades = <<>>
    /\ batch.runs[2].trades = <<20>>
    /\ batch.runs[3].params = 2

C39_TargetIsRanked ==
    batch.entry = "opt" =>
        /\ \A j \in DOMAIN batch.results :
              batch.target \in DOMAIN batch.results[j].dict
        /\ (batch.pc = "done" /\ batch.results # <<>>) => batch.summary # <<>>

\* C38: execute_backtest holds exactly one entry for every config it has
\* processed, in the order of the configs: an entry with 'error' when loading
\* the data, adding the strategy, the run or the analysis failed, the
\* analysis otherwise; a failure does not end the loop, so that the table is
\* printed with one entry for every config.
C38_OneEntryPerConfig ==
    batch.entry = "simple" =>
        /\ Len(batch.results) = batch.unit
        /\ Len(batch.failed) = batch.unit
        /\ \A j \in DOMAIN batch.results :
              /\ batch.results[j].unit = j
              /\ batch.failed[j] # "none"
                    <=> "error" \in DOMAIN batch.results[j].dict
              /\ batch.failed[j] = "none"
                    => "final_value" \in DOMAIN batch.results[j].dict
        /\ batch.pc \in {"loop", "interrupted", "done"}
        /\ batch.pc = "done" =>
              /\ batch.unit = batch.n_units
              /\ batch.reported = batch.results

C38_Witness ==
    /\ batch.entry = "simple"
    /\ batch.pc = "done"
    /\ batch.n_units = MaxUnits
    /\ batch.failed = <<"strategy", "none">>
    /\ Len(batch.reported) = 2

====
